---- MODULE Spec2Model ----
(***************************************************************************)
(* Model of strava_api/strava_api.py: a top-to-bottom script that requests *)
(* an access token, fetches one page of activities, wrangles the table,    *)
(* filters the rides, selects one ride and renders it on a folium map.     *)
(*                                                                         *)
(* pc is the source line of the next statement to execute; status tells    *)
(* whether the script is still running, has stopped with an unhandled      *)
(* exception at line pc ("fault"), or has run to its end ("done").         *)
(*                                                                         *)
(* Numbers: coordinates are integers in units of 1e-5 degree (the          *)
(* precision of the polyline codec); a mean is kept as an exact fraction   *)
(* [num, den], with den = 0 standing for numpy's nan (mean of nothing).    *)
(* Speeds are integers in m/s and the converted speeds are in thousandths. *)
(* A data frame is [columns, index, rows]: rows are functions from column  *)
(* name to value, index is the sequence of row labels.                     *)
(***************************************************************************)
EXTENDS Integers, Sequences, FiniteSets, TLC

VARIABLES pc, status, wire, access_token, header, param,
          strava_activities_data, activities, rides, which_ride, my_ride,
          centroid, ride_map, fileWrites, fileContent

vars == <<pc, status, wire, access_token, header, param,
          strava_activities_data, activities, rides, which_ride, my_ride,
          centroid, ride_map, fileWrites, fileContent>>

(* ------------------------------ bounds --------------------------------- *)
\* most activities in one API response
MaxRows == 2
\* most points in one encoded path
MaxPts == 2
\* most activities in a response that lacks a column
MaxLackingRows == 1

(* ------------------------- inputs of the model ------------------------- *)
\* tokens the token endpoint may hand out
Tokens == {"tokA", "tokB"}
\* (type, average_speed in m/s) of an activity
Kinds == {<<"Ride", 5>>, <<"Run", 3>>}
\* distances in metres
Distances == {10000, 20000}
\* local start timestamps, in hours since the epoch: day 1 08h, day 2 08h
StartStamps == {32, 56}

\* the i-th point of the route the paths are cut from, (lat, lon) in 1e-5 deg
RoutePoint(i) == <<4500000 + 1000 * (i - 1) * (i - 1), -12200000 - 1000 * (i - 1)>>
\* the path of the first n points of the route
Path(n) == [i \in 1..n |-> RoutePoint(i)]

(* --------------------------- program constants ------------------------- *)
auth_url == "https://www.strava.com/oauth/token"
activities_url == "https://www.strava.com/api/v3/athlete/activities"
per_page == 500
page == 1
HoursPerDay == 24
KmhFactor == 3600
MphFactor == 2237

\* the columns the script removes
DropList ==
    {"map.summary_polyline", "resource_state", "external_id", "upload_id",
     "location_city", "location_state", "has_kudoed", "start_date",
     "athlete.resource_state", "utc_offset", "map.resource_state",
     "athlete.id", "visibility", "heartrate_opt_out", "upload_id_str",
     "from_accepted_tag", "map.id", "manual", "private", "flagged"}

\* the columns of a flattened activities response
RawColumns ==
    {"id", "type", "distance", "start_date_local", "average_speed"} \cup DropList

\* the column an API response may lack ("none": it lacks none)
MissingOptions ==
    {"none", "start_date_local", "average_speed", "map.summary_polyline",
     "type", "distance", "resource_state", "flagged"}

(* ------------------------------ helpers -------------------------------- *)
RECURSIVE SumSeq(_)
SumSeq(s) == IF s = <<>> THEN 0 ELSE Head(s) + SumSeq(Tail(s))

RECURSIVE Concat(_)
\* the concatenation of a sequence of sequences
Concat(ss) == IF ss = <<>> THEN <<>> ELSE Head(ss) \o Concat(Tail(ss))

SetMax(S) == CHOOSE x \in S : \A y \in S : y <= x

NaN == [num |-> 0, den |-> 0]
IsNaN(m) == m.den = 0

\* numpy.mean of a list of numbers: nan (with a warning, no exception) when empty
Mean(xs) == IF Len(xs) = 0 THEN NaN ELSE [num |-> SumSeq(xs), den |-> Len(xs)]

\* the encoded form of a path: the first point, then the successive differences
Encode(path) ==
    [i \in 1..Len(path) |->
        IF i = 1 THEN path[1]
        ELSE <<path[i][1] - path[i - 1][1], path[i][2] - path[i - 1][2]>>]

RECURSIVE decode(_)
\* polyline.decode: accumulate the differences back into points
decode(enc) ==
    IF Len(enc) = 0 THEN <<>>
    ELSE LET front == decode(SubSeq(enc, 1, Len(enc) - 1))
             last  == enc[Len(enc)]
         IN  IF front = <<>> THEN <<last>>
             ELSE Append(front, <<front[Len(front)][1] + last[1],
                                  front[Len(front)][2] + last[2]>>)

\* one activity object of the JSON response, flattened
RawRow(i, a) ==
    [c \in RawColumns |->
        CASE c = "id" -> i
          [] c = "type" -> a[1][1]
          [] c = "average_speed" -> a[1][2]
          [] c = "distance" -> a[2]
          [] c = "start_date_local" -> a[3]
          [] c = "map.summary_polyline" -> Encode(Path(a[4]))
          [] OTHER -> 0]

Attrs == Kinds \X Distances \X StartStamps \X (0..MaxPts)

Restrict(r, cols) == [c \in cols |-> r[c]]

EmptyFrame == [columns |-> {}, index |-> <<>>, rows |-> <<>>]

\* json_normalize: one row per object, columns are the keys; no object, no column
json_normalize(data) ==
    [columns |-> IF Len(data) = 0 THEN {} ELSE DOMAIN data[1],
     index   |-> [i \in 1..Len(data) |-> i - 1],
     rows    |-> data]

\* df[name] = values: the column is added, or replaced when it exists
WithColumn(df, name, values) ==
    [df EXCEPT !.columns = @ \cup {name},
               !.rows = [i \in 1..Len(df.rows) |-> (name :> values[i]) @@ df.rows[i]]]

\* the columns the transform computes, one value per row
Date(df) == [i \in 1..Len(df.rows) |-> df.rows[i]["start_date_local"] \div HoursPerDay]
Time(df) == [i \in 1..Len(df.rows) |-> df.rows[i]["start_date_local"] % HoursPerDay]
Kmh(df) == [i \in 1..Len(df.rows) |-> df.rows[i]["average_speed"] * KmhFactor]
Mph(df) == [i \in 1..Len(df.rows) |-> df.rows[i]["average_speed"] * MphFactor]
Decoded(df) == [i \in 1..Len(df.rows) |-> decode(df.rows[i]["map.summary_polyline"])]

\* DataFrame.drop(labels, axis=1)
drop(df, labels) ==
    [df EXCEPT !.columns = @ \ labels,
               !.rows = [i \in 1..Len(df.rows) |-> Restrict(df.rows[i], DOMAIN df.rows[i] \ labels)]]

\* the positions from i on at which a boolean mask is true, in increasing order
RECURSIVE Positions(_, _)
Positions(mask, i) ==
    IF i > Len(mask) THEN <<>>
    ELSE (IF mask[i] THEN <<i>> ELSE <<>>) \o Positions(mask, i + 1)

\* df.loc[mask] / df[mask]: the rows at the given positions, labels kept
Take(df, pos) ==
    [columns |-> df.columns,
     index   |-> [k \in 1..Len(pos) |-> df.index[pos[k]]],
     rows    |-> [k \in 1..Len(pos) |-> df.rows[pos[k]]]]

\* activities['type'] == 'Ride'
IsRide(df) == [i \in 1..Len(df.rows) |-> df.rows[i]["type"] = "Ride"]

\* activities.loc[activities['type'] == 'Ride']
FilterRides(df) == Take(df, Positions(IsRide(df), 1))

\* a set_index that keeps one row per label: a later row with a label already
\* seen is merged away
set_index_merging(df, name) ==
    LET IsFirst == [i \in 1..Len(df.rows) |->
                       \A j \in 1..(i - 1) : df.rows[j][name] # df.rows[i][name]]
        kept == Take(df, Positions(IsFirst, 1))
    IN  [columns |-> kept.columns \ {name},
         index   |-> [i \in 1..Len(kept.rows) |-> kept.rows[i][name]],
         rows    |-> [i \in 1..Len(kept.rows) |->
                         Restrict(kept.rows[i], DOMAIN kept.rows[i] \ {name})]]

\* rides.set_index('start_date_local'): the column becomes the row labels
set_index(df, name) ==
    [columns |-> df.columns \ {name},
     index   |-> [i \in 1..Len(df.rows) |-> df.rows[i][name]],
     rows    |-> [i \in 1..Len(df.rows) |-> Restrict(df.rows[i], DOMAIN df.rows[i] \ {name})]]

Unbound == [kind |-> "unbound", frame |-> EmptyFrame]

\* DataFrame.squeeze(): one row (of several columns) becomes a single record,
\* any other number of rows leaves the table as it is
squeeze(df) ==
    IF Len(df.rows) = 1 /\ Cardinality(df.columns) > 1
    THEN [kind |-> "row", frame |-> df]
    ELSE [kind |-> "table", frame |-> df]

\* a selection that compares with the minimum instead of the maximum
SelectShortest(df) ==
    LET ds == {df.rows[i]["distance"] : i \in 1..Len(df.rows)}
        IsMin == [i \in 1..Len(df.rows) |-> df.rows[i]["distance"] = -SetMax({-d : d \in ds})]
    IN  squeeze(Take(df, Positions(IsMin, 1)))

\* rides[rides.distance == rides.distance.max()].squeeze()
SelectLongest(df) ==
    LET ds == {df.rows[i]["distance"] : i \in 1..Len(df.rows)}
        IsMax == [i \in 1..Len(df.rows) |-> df.rows[i]["distance"] = SetMax(ds)]
    IN  squeeze(Take(df, Positions(IsMax, 1)))

\* a selection of the most recent ride by its index label, not by its position
SelectLatestIndex(df) ==
    LET latest == SetMax({df.index[i] : i \in 1..Len(df.rows)})
        pos == CHOOSE i \in 1..Len(df.rows) :
                  /\ df.index[i] = latest
                  /\ \A j \in 1..(i - 1) : df.index[j] # latest
    IN  [kind |-> "row", frame |-> Take(df, <<pos>>)]

\* rides.iloc[0, :]
SelectLast(df) == [kind |-> "row", frame |-> Take(df, <<1>>)]

\* the value of my_ride['map.polyline'] as the comprehension iterates it:
\* the points of the path for a single record, the paths of the rows for a table
Iterated(ride) ==
    IF ride.kind = "row" THEN ride.frame.rows[1]["map.polyline"]
    ELSE [i \in 1..Len(ride.frame.rows) |-> ride.frame.rows[i]["map.polyline"]]

\* [coord[k] for coord in my_ride['map.polyline']] raises IndexError
ComponentFaults(ride, k) ==
    ride.kind = "table" /\ \E i \in 1..Len(ride.frame.rows) : Len(Iterated(ride)[i]) < k

\* a centroid whose second component repeats coord[0] of the first
ComponentLatOnly(ride, k) ==
    LET it == Iterated(ride)
    IN  IF ride.kind = "row"
        THEN Mean([i \in 1..Len(it) |-> it[i][1]])
        ELSE Mean(Concat([i \in 1..Len(it) |-> it[i][1]]))

\* np.mean([coord[k] for coord in my_ride['map.polyline']]); for a table
\* coord[k] is the k-th point of a path and the mean runs over its numbers
Component(ride, k) ==
    LET it == Iterated(ride)
    IN  IF ride.kind = "row"
        THEN Mean([i \in 1..Len(it) |-> it[i][k]])
        ELSE Mean(Concat([i \in 1..Len(it) |-> it[i][k]]))

Centroid(ride) == <<Component(ride, 1), Component(ride, 2)>>

\* the stage a source line belongs to
Stage(line) ==
    CASE line <= 37 -> "auth"
      [] line <= 47 -> "fetch"
      [] line <= 78 -> "transform"
      [] line <= 87 -> "select"
      [] OTHER -> "render"

NoMap == [bound |-> FALSE, location |-> <<NaN, NaN>>, layers |-> <<>>, fitted |-> FALSE]


\* a selection with a final else branch that falls back to the first row
SelectedRideDefaulting(mode, df, old) ==
    CASE mode = "longest" -> SelectLongest(df)
      [] mode = "last" -> SelectLast(df)
      [] OTHER -> IF Len(df.rows) = 0 THEN old ELSE SelectLast(df)

\* what the branch on which_ride binds my_ride to; old is its previous binding
SelectedRide(mode, df, old) ==
    CASE mode = "longest" -> SelectLongest(df)
      [] mode = "last" -> SelectLast(df)
      [] OTHER -> old

\* the selection raises: rides.distance without that column (AttributeError),
\* rides.iloc[0, :] without a row (IndexError)
SelectFaults(mode, df) ==
    \/ mode = "longest" /\ "distance" \notin df.columns
    \/ mode = "last" /\ Len(df.rows) = 0

\* the paths folium.PolyLine draws for my_ride['map.polyline']
Locations(ride) == IF ride.kind = "row" THEN <<Iterated(ride)>> ELSE Iterated(ride)

\* folium's validation of the locations raises ValueError on an empty list
LocationsFault(ride) ==
    \/ Len(Iterated(ride)) = 0
    \/ ride.kind = "table" /\ \E i \in 1..Len(Iterated(ride)) : Len(Iterated(ride)[i]) = 0

(* ------------------------------- state --------------------------------- *)
Init ==
    /\ pc = 36
    /\ status = "running"
    /\ wire = <<>>
    /\ access_token = ""
    /\ header = <<>>
    /\ param = [per_page |-> 0, page |-> 0]
    /\ strava_activities_data = <<>>
    /\ activities = EmptyFrame
    /\ rides = EmptyFrame
    /\ which_ride = ""
    /\ my_ride = Unbound
    /\ centroid = <<NaN, NaN>>
    /\ ride_map = NoMap
    /\ fileWrites = 0
    /\ fileContent = NoMap

\* an unhandled exception raised at the given line ends the run
Raise(line) == status' = "fault" /\ pc' = line

Goto(line) == status' = "running" /\ pc' = line

(* ------------------------------ actions -------------------------------- *)
\* a token request that reads the field with .get(): a body without a token
\* does not stop the run
RequestTokenLenient ==
    /\ status = "running" /\ pc = 36
    /\ wire' = Append(wire, [method |-> "POST", url |-> auth_url, headers |-> <<>>,
                             params |-> [per_page |-> 0, page |-> 0]])
    /\ \E kind \in {"token", "no_token", "error"}, t \in Tokens :
          CASE kind = "token" -> access_token' = t /\ Goto(41)
            [] kind = "no_token" -> access_token' = access_token /\ Goto(41)
            [] OTHER -> access_token' = access_token /\ Raise(37)
    /\ UNCHANGED <<header, param, strava_activities_data, activities, rides,
                   which_ride, my_ride, centroid, ride_map, fileWrites, fileContent>>

\* lines 36-37: one POST to the token endpoint; the body may carry a token,
\* lack the field (KeyError) or not be JSON / not arrive at all
RequestToken ==
    /\ status = "running" /\ pc = 36
    /\ wire' = Append(wire, [method |-> "POST", url |-> auth_url, headers |-> <<>>,
                             params |-> [per_page |-> 0, page |-> 0]])
    /\ \E kind \in {"token", "no_token", "error"}, t \in Tokens :
          IF kind = "token"
          THEN access_token' = t /\ Goto(41)
          ELSE access_token' = access_token /\ Raise(37)
    /\ UNCHANGED <<header, param, strava_activities_data, activities, rides,
                   which_ride, my_ride, centroid, ride_map, fileWrites, fileContent>>

\* lines 41-46: one GET of page 1 with the bearer header; the response is a
\* list of at most MaxRows activities (at most MaxLackingRows when it lacks a
\* column), or the request / the JSON parse fails
FetchActivities ==
    /\ status = "running" /\ pc = 41
    /\ header' = <<"Bearer ", access_token>>
    /\ param' = [per_page |-> per_page, page |-> page]
    /\ wire' = Append(wire, [method |-> "GET", url |-> activities_url,
                             headers |-> header', params |-> param'])
    /\ \/ /\ Raise(43)
          /\ UNCHANGED <<strava_activities_data, activities>>
       \/ \E n \in 0..MaxRows, missing \in MissingOptions :
          \E f \in [1..n -> Attrs] :
             /\ missing = "none" \/ n <= MaxLackingRows
             /\ strava_activities_data' =
                   [i \in 1..n |-> Restrict(RawRow(i, f[i]), RawColumns \ {missing})]
             /\ activities' = json_normalize(strava_activities_data')
             /\ Goto(51)
    /\ UNCHANGED <<access_token, rides, which_ride, my_ride, centroid, ride_map,
                   fileWrites, fileContent>>

\* lines 51-53: split the local start timestamp into time of day and date
SplitStartDate ==
    /\ status = "running" /\ pc = 51
    /\ IF "start_date_local" \notin activities.columns
       THEN Raise(51) /\ UNCHANGED activities
       ELSE /\ activities' = WithColumn(WithColumn(activities, "start_time", Time(activities)),
                                        "start_date_local", Date(activities))
            /\ Goto(56)
    /\ UNCHANGED <<wire, access_token, header, param, strava_activities_data, rides,
                   which_ride, my_ride, centroid, ride_map, fileWrites, fileContent>>

\* lines 56-57: speed in km/h and mph
ConvertSpeed ==
    /\ status = "running" /\ pc = 56
    /\ IF "average_speed" \notin activities.columns
       THEN Raise(56) /\ UNCHANGED activities
       ELSE /\ activities' = WithColumn(WithColumn(activities, "average_speed_kmh", Kmh(activities)),
                                        "average_speed_mph", Mph(activities))
            /\ Goto(60)
    /\ UNCHANGED <<wire, access_token, header, param, strava_activities_data, rides,
                   which_ride, my_ride, centroid, ride_map, fileWrites, fileContent>>

\* line 60: decode the summary polylines
DecodePolylines ==
    /\ status = "running" /\ pc = 60
    /\ IF "map.summary_polyline" \notin activities.columns
       THEN Raise(60) /\ UNCHANGED activities
       ELSE /\ activities' = WithColumn(activities, "map.polyline", Decoded(activities))
            /\ Goto(63)
    /\ UNCHANGED <<wire, access_token, header, param, strava_activities_data, rides,
                   which_ride, my_ride, centroid, ride_map, fileWrites, fileContent>>

\* lines 63-72: drop the listed columns; a listed column that is absent is a KeyError
DropColumns ==
    /\ status = "running" /\ pc = 63
    /\ IF ~(DropList \subseteq activities.columns)
       THEN Raise(63) /\ UNCHANGED activities
       ELSE /\ activities' = drop(activities, DropList)
            /\ Goto(75)
    /\ UNCHANGED <<wire, access_token, header, param, strava_activities_data, rides,
                   which_ride, my_ride, centroid, ride_map, fileWrites, fileContent>>

\* line 75: keep the cycling activities
SeparateRides ==
    /\ status = "running" /\ pc = 75
    /\ IF "type" \notin activities.columns
       THEN Raise(75) /\ UNCHANGED rides
       ELSE /\ rides' = FilterRides(activities)
            /\ Goto(78)
    /\ UNCHANGED <<wire, access_token, header, param, strava_activities_data, activities,
                   which_ride, my_ride, centroid, ride_map, fileWrites, fileContent>>

\* line 78: index the rides by start date
SetIndex ==
    /\ status = "running" /\ pc = 78
    /\ rides' = set_index(rides, "start_date_local")
    /\ Goto(82)
    /\ UNCHANGED <<wire, access_token, header, param, strava_activities_data, activities,
                   which_ride, my_ride, centroid, ride_map, fileWrites, fileContent>>

\* line 82: the selection mode, a literal of the script that its user edits
SetWhichRide ==
    /\ status = "running" /\ pc = 82
    /\ which_ride' \in {"last", "longest", "shortest"}
    /\ Goto(84)
    /\ UNCHANGED <<wire, access_token, header, param, strava_activities_data, activities,
                   rides, my_ride, centroid, ride_map, fileWrites, fileContent>>

\* lines 84-87: select the activity
SelectRide ==
    /\ status = "running" /\ pc = 84
    /\ IF SelectFaults(which_ride, rides)
       THEN Raise(IF which_ride = "longest" THEN 85 ELSE 87) /\ UNCHANGED my_ride
       ELSE /\ my_ride' = SelectedRide(which_ride, rides, my_ride)
            /\ Goto(90)
    /\ UNCHANGED <<wire, access_token, header, param, strava_activities_data, activities,
                   rides, which_ride, centroid, ride_map, fileWrites, fileContent>>

\* lines 90-93: centre coordinates; my_ride unbound is a NameError
ComputeCentroid ==
    /\ status = "running" /\ pc = 90
    /\ IF \/ my_ride.kind = "unbound"
          \/ ComponentFaults(my_ride, 1)
          \/ ComponentFaults(my_ride, 2)
       THEN /\ Raise(IF my_ride.kind = "unbound" \/ ComponentFaults(my_ride, 1)
                     THEN 91 ELSE 92)
            /\ UNCHANGED centroid
       ELSE /\ centroid' = Centroid(my_ride)
            /\ Goto(95)
    /\ UNCHANGED <<wire, access_token, header, param, strava_activities_data, activities,
                   rides, which_ride, my_ride, ride_map, fileWrites, fileContent>>

\* line 95: folium.Map rejects a location that contains nan (ValueError)
CreateMap ==
    /\ status = "running" /\ pc = 95
    /\ IF IsNaN(centroid[1]) \/ IsNaN(centroid[2])
       THEN Raise(95) /\ UNCHANGED ride_map
       ELSE /\ ride_map' = [bound |-> TRUE, location |-> centroid, layers |-> <<>>,
                            fitted |-> FALSE]
            /\ Goto(96)
    /\ UNCHANGED <<wire, access_token, header, param, strava_activities_data, activities,
                   rides, which_ride, my_ride, centroid, fileWrites, fileContent>>

\* line 96: add the route as a layer
AddPolyLine ==
    /\ status = "running" /\ pc = 96
    /\ IF LocationsFault(my_ride)
       THEN Raise(96) /\ UNCHANGED ride_map
       ELSE /\ ride_map' = [ride_map EXCEPT !.layers =
                               Append(@, [color |-> "red", paths |-> Locations(my_ride)])]
            /\ Goto(97)
    /\ UNCHANGED <<wire, access_token, header, param, strava_activities_data, activities,
                   rides, which_ride, my_ride, centroid, fileWrites, fileContent>>

\* line 97: zoom in to the route area
FitBounds ==
    /\ status = "running" /\ pc = 97
    /\ ride_map' = [ride_map EXCEPT !.fitted = TRUE]
    /\ Goto(98)
    /\ UNCHANGED <<wire, access_token, header, param, strava_activities_data, activities,
                   rides, which_ride, my_ride, centroid, fileWrites, fileContent>>

\* line 98: display is a builtin of IPython only; under the plain interpreter
\* the name is undefined (NameError)
Display ==
    /\ status = "running" /\ pc = 98
    /\ \E interpreter \in {"ipython", "python"} :
          IF interpreter = "ipython" THEN Goto(100) ELSE Raise(98)
    /\ UNCHANGED <<wire, access_token, header, param, strava_activities_data, activities,
                   rides, which_ride, my_ride, centroid, ride_map, fileWrites, fileContent>>

\* line 100: write ride_map.html; the script ends
SaveMap ==
    /\ status = "running" /\ pc = 100
    /\ fileWrites' = fileWrites + 1
    /\ fileContent' = ride_map
    /\ status' = "done" /\ pc' = 101
    /\ UNCHANGED <<wire, access_token, header, param, strava_activities_data, activities,
                   rides, which_ride, my_ride, centroid, ride_map>>

Next ==
    \/ RequestToken
    \/ FetchActivities
    \/ SplitStartDate
    \/ ConvertSpeed
    \/ DecodePolylines
    \/ DropColumns
    \/ SeparateRides
    \/ SetIndex
    \/ SetWhichRide
    \/ SelectRide
    \/ ComputeCentroid
    \/ CreateMap
    \/ AddPolyLine
    \/ FitBounds
    \/ Display
    \/ SaveMap

Spec == Init /\ [][Next]_vars

(* ======================= properties of the script ====================== *)
Modes == {"last", "longest"}

\* the selection statement (lines 84-87) has been executed
SelectActed == pc > 87 \/ (status = "fault" /\ pc \in {85, 87})

\* the ids of the rows of a frame, in row order
Ids(df) == [i \in 1..Len(df.rows) |-> df.rows[i]["id"]]

\* the positions of the API response whose type is 'Ride'
ResponseRides ==
    {k \in 1..Len(strava_activities_data) : strava_activities_data[k]["type"] = "Ride"}

\* the positions of rides whose distance no other row exceeds
MaxPositions ==
    {i \in 1..Len(rides.rows) :
        \A j \in 1..Len(rides.rows) : rides.rows[j]["distance"] <= rides.rows[i]["distance"]}

\* the path of the selected single record, as the API response described it
SelectedPath ==
    Path(Len(strava_activities_data[my_ride.frame.rows[1]["id"]]["map.summary_polyline"]))

\* m is the arithmetic mean of the k-th components of the points of path
IsMeanOf(m, path, k) ==
    /\ m.den > 0
    /\ SumSeq([i \in 1..Len(path) |-> m.den * path[i][k] - m.num]) = 0

\* C1: in both modes, when no fetched row is a 'Ride' the selection statement
\* itself raises; it never completes with my_ride bound to an empty value.
C1_EmptySelectionFails ==
    (SelectActed /\ which_ride \in Modes /\ Len(rides.rows) = 0)
        => (status = "fault" /\ pc \in {85, 87})

\* C2: 'longest' on rides where two or more rows share the maximum distance
\* yields exactly one row, the first of the tied rows in table order.
C2_TieFirstWins ==
    (pc > 87 /\ which_ride = "longest" /\ Cardinality(MaxPositions) >= 2)
        => /\ my_ride.kind = "row"
           /\ my_ride.frame.rows =
                 <<rides.rows[CHOOSE i \in MaxPositions : \A j \in MaxPositions : i <= j]>>

\* C3: 'longest' on non-empty rides whose maximum distance is attained by
\* exactly one row returns that row as a single record.
C3_UniqueMaxSelected ==
    (pc > 87 /\ which_ride = "longest" /\ Cardinality(MaxPositions) = 1)
        => /\ my_ride.kind = "row"
           /\ \A i \in MaxPositions :
                 /\ my_ride.frame.rows = <<rides.rows[i]>>
                 /\ my_ride.frame.index = <<rides.index[i]>>
                 /\ \A j \in 1..Len(rides.rows) :
                       j # i => rides.rows[j]["distance"] < my_ride.frame.rows[1]["distance"]

\* C3 witness: two rides, the second strictly longer, and it was selected
C3_Witness ==
    /\ pc > 87 /\ which_ride = "longest"
    /\ Len(rides.rows) = 2
    /\ rides.rows[1]["distance"] < rides.rows[2]["distance"]
    /\ my_ride.kind = "row"
    /\ my_ride.frame.rows[1]["id"] = 2

C5_FailFast ==
    /\ fileWrites <= 1
    /\ status = "fault" => fileWrites = 0
    /\ fileWrites = 1 => (status = "done" /\ ride_map.bound /\ fileContent = ride_map)
    \* authentication response without an access token
    /\ (pc > 36 /\ access_token = "") => (status = "fault" /\ Stage(pc) = "auth")
    \* fetch failure
    /\ (Len(wire) = 2 /\ activities = EmptyFrame /\ strava_activities_data = <<>> /\ pc < 51)
          => (status = "fault" /\ Stage(pc) = "fetch")
    \* a column the transform reads or drops is missing
    /\ (pc >= 51 /\ ~(({"start_date_local", "average_speed", "type"} \cup DropList)
                          \subseteq json_normalize(strava_activities_data).columns))
          => /\ Stage(pc) = "transform"
             /\ pc \in {51, 56, 60, 63, 75}
             /\ status # "done"
    \* empty selection
    /\ (SelectActed /\ which_ride \in Modes /\ Len(rides.rows) = 0)
          => (status = "fault" /\ Stage(pc) = "select")
    \* empty coordinate sequence
    /\ (my_ride.kind = "row" /\ Len(Iterated(my_ride)) = 0)
          => (~ride_map.bound /\ pc <= 95 /\ status # "done")

\* C6: the derived fields and the column cleanup are applied to the full
\* table before the 'Ride' filter is taken, never to the filtered subset,
\* and the map is rendered from the path of exactly one selected activity.
C6_StageOrdering ==
    /\ pc < 78 => rides = EmptyFrame
    /\ pc >= 78 =>
          /\ Len(activities.rows) = Len(strava_activities_data)
          /\ {"start_time", "average_speed_kmh", "average_speed_mph", "map.polyline"}
                \subseteq activities.columns
          /\ activities.columns \cap DropList = {}
          /\ \A i \in 1..Len(rides.rows) :
                rides.rows[i] = Restrict(activities.rows[rides.rows[i]["id"]], rides.columns)
    /\ ride_map.layers # <<>> =>
          /\ my_ride.kind = "row"
          /\ Len(ride_map.layers) = 1
          /\ ride_map.layers[1].paths = <<SelectedPath>>

\* C7: the transform keeps the rows of the full table in API response order;
\* the filtered table holds exactly the 'Ride' rows, each once, in response
\* order; indexing by start date neither reorders, drops nor merges rows.
C7_OrderPreserved ==
    /\ pc >= 51 =>
          /\ Len(activities.rows) = Len(strava_activities_data)
          /\ \A i \in 1..Len(activities.rows) :
                activities.rows[i]["id"] = strava_activities_data[i]["id"]
    /\ pc >= 78 =>
          /\ {rides.rows[i]["id"] : i \in 1..Len(rides.rows)} = ResponseRides
          /\ Len(rides.rows) = Cardinality(ResponseRides)
          /\ Len(rides.index) = Len(rides.rows)
          /\ \A i, j \in 1..Len(rides.rows) :
                i < j => rides.rows[i]["id"] < rides.rows[j]["id"]
          /\ \A i \in 1..Len(rides.rows) :
                rides.rows[i] = Restrict(activities.rows[rides.rows[i]["id"]], rides.columns)
    /\ pc >= 82 =>
          \A i \in 1..Len(rides.rows) :
             rides.index[i] = activities.rows[rides.rows[i]["id"]]["start_date_local"]

\* C7 witness: two rides of the same start date, indexed by it, both kept
C7_Witness ==
    /\ pc >= 82
    /\ Len(rides.rows) = 2
    /\ rides.index[1] = rides.index[2]
    /\ Ids(rides) = <<1, 2>>

\* C8: one token POST and at most one activities GET (page 1, per_page 500);
\* the GET follows a POST that returned a token and carries it as the bearer
\* header; neither request is retried and no further page is requested.
C8_RequestProtocol ==
    /\ Len(wire) <= 2
    /\ (pc > 36 \/ status # "running") =>
          /\ Len(wire) >= 1
          /\ wire[1].method = "POST" /\ wire[1].url = auth_url
    /\ \A i \in 2..Len(wire) :
          /\ wire[i].method = "GET" /\ wire[i].url = activities_url
          /\ wire[i].params = [per_page |-> 500, page |-> 1]
          /\ access_token \in Tokens
          /\ wire[i].headers = <<"Bearer ", access_token>>
    /\ access_token = "" => Len(wire) <= 1

\* C8 witness: a run that went to its end issued the POST, then the GET
C8_Witness ==
    /\ status = "done"
    /\ Len(wire) = 2
    /\ wire[2].method = "GET"

C10_UnknownModeFaults ==
    (which_ride \notin (Modes \cup {""}))
        => /\ my_ride = Unbound
           /\ ride_map = NoMap
           /\ fileWrites = 0
           /\ \/ status = "running" /\ pc \in {84, 90}
              \/ status = "fault" /\ pc = 91

\* C10 witness: rides were there to select, yet the run stopped at line 91
C10_Witness ==
    /\ which_ride = "shortest"
    /\ Len(rides.rows) > 0
    /\ status = "fault" /\ pc = 91

(* ------------- supporting properties, checked as invariants ------------ *)
\* ride_map.html is written at most once, by line 100 only, never in a run
\* that faulted; an empty selection or an empty path never reaches the save
NoPartialOutput ==
    /\ fileWrites <= 1
    /\ status = "fault" => fileWrites = 0
    /\ fileWrites = 1 => (status = "done" /\ ride_map.bound /\ fileContent = ride_map)
    /\ (SelectActed /\ which_ride = "last" /\ Len(rides.rows) = 0)
          => (status = "fault" /\ pc = 87)
    /\ (SelectActed /\ which_ride = "longest" /\ Len(rides.rows) = 0)
          => (ride_map = NoMap /\ fileWrites = 0 /\ pc <= 95 /\ status # "done")

\* the derived fields and the column drop are on the full table before the
\* filter is taken; with my_ride a single record the map holds its path only
TransformBeforeFilter ==
    /\ pc < 78 => rides = EmptyFrame
    /\ pc >= 78 =>
          /\ Len(activities.rows) = Len(strava_activities_data)
          /\ {"start_time", "average_speed_kmh", "average_speed_mph", "map.polyline"}
                \subseteq activities.columns
          /\ activities.columns \cap DropList = {}
    /\ (ride_map.layers # <<>> /\ my_ride.kind = "row") =>
          /\ Len(ride_map.layers) = 1
          /\ ride_map.layers[1].paths = <<SelectedPath>>
    /\ (ride_map.layers # <<>> /\ which_ride = "last") => my_ride.kind = "row"

====
